---- MODULE Spec2Model ----
(***************************************************************************)
(* State-machine model of the "sell winners" bot of src/main.py (the       *)
(* canonical snapshot, lines 1-431): the ledger reader fetch_all_fills,    *)
(* the moving-average fold of compute_avg_cost_for_balance, the quote      *)
(* waterfall price_for_product, and the evaluate / re-check / submit       *)
(* pipeline of scan_once inside the endless loop of main.                  *)
(*                                                                         *)
(* Values.  A Python Decimal is a record [kind |-> "dec", c, e] standing   *)
(* for c * 10^e, kept with trailing zeros stripped (comparisons in the     *)
(* code are by value).  Every arithmetic result is rounded to DecimalPrec  *)
(* significant digits, ROUND_HALF_EVEN, as the decimal context does.       *)
(* Python's None is the record NoneV.  A string is a sequence of           *)
(* one-character strings, [kind |-> "str", s |-> <<"1", ".", "5">>].       *)
(***************************************************************************)
EXTENDS Integers, Sequences, FiniteSets, TLC

VARIABLES
    pf,              \* main: pf, the portfolio scope (NoneV = ALL)
    pc,              \* control position inside main / scan_once
    accounts,        \* scan_once: accounts, the listing of this cycle
    idx,             \* scan_once: position of `raw` in accounts
    bal,             \* scan_once: bal
    meta,            \* scan_once: meta (base_inc, base_ccy)
    out,             \* fetch_all_fills: out, in arrival order
    cursor,          \* fetch_all_fills: cursor
    npages,          \* fetch_all_fills: iterations of range(max_pages) used
    fills,           \* compute_avg_cost_for_balance: fills (sorted)
    fi,              \* compute_avg_cost_for_balance: position of f in fills
    units,           \* compute_avg_cost_for_balance: units
    cost,            \* compute_avg_cost_for_balance: cost
    last_buy_price,  \* compute_avg_cost_for_balance: last_buy_price
    consumed,        \* compute_avg_cost_for_balance: consumed
    avg,             \* scan_once: avg
    last_buy,        \* scan_once: last_buy
    px,              \* scan_once: px
    recheck,         \* which call of price_for_product is running
    base_bal,        \* scan_once: base_bal
    accounts_now,    \* scan_once: accounts_now, the fresh listing (<<>> before it)
    size,            \* scan_once: size
    px2,             \* scan_once: px2
    reqs,            \* requests issued for the current asset, in order
    answers,         \* answers to the requests of the current price_for_product call
    orders,          \* POST /orders requests of this cycle, in order
    lastlog,         \* the last line log() wrote for the current entry
    toperr,          \* main: "Top-level error" was logged this cycle
    fallback         \* FALLBACK_TO_LAST_BUY

vars == <<pf, pc, accounts, idx, bal, meta, out, cursor, npages, fills, fi,
          units, cost, last_buy_price, consumed, avg, last_buy, px, recheck,
          base_bal, accounts_now, size, px2, reqs, answers, orders, lastlog,
          toperr, fallback>>

(***************************************************************************)
(* Bounds of the model.                                                    *)
(***************************************************************************)
\* Significant digits of the decimal context.  Python's default is 28; the
\* arithmetic below is parametric in it and runs at this precision.
DecimalPrec == 5
\* Longest fill history given to the fold in SpecFold.
MaxFills == 3
\* Longest history given to the fold in SpecRange.
MaxHistory == 4
\* Page cap of fetch_all_fills (env MAX_FILL_PAGES, default 200).
MAX_FILL_PAGES == 2

(***************************************************************************)
(* Decimal arithmetic (decimal.Decimal under the default context).         *)
(***************************************************************************)
NoneV == [kind |-> "none"]

Dec(c, e) == [kind |-> "dec", c |-> c, e |-> e]

Str(s) == [kind |-> "str", s |-> s]

\* An operator written  Op(a0) == CHOOSE result \in {( body ) : a \in {a0}} : TRUE
\* is  Op(a) == body  with the argument evaluated once, as Python evaluates
\* the arguments of a call before the call.

RECURSIVE Pow10(_)
Pow10(n) == IF n <= 0 THEN 1 ELSE 10 * Pow10(n - 1)

Abs(n) == IF n < 0 THEN -n ELSE n

Min(a, b) == IF a <= b THEN a ELSE b

\* Strip trailing zeros of the magnitude m (value m * 10^e unchanged).
RECURSIVE StripZeros(_, _)
StripZeros(m0, e0) ==
    CHOOSE result \in {(
        IF m = 0 THEN <<0, 0>>
        ELSE IF m % 10 = 0 THEN StripZeros(m \div 10, e + 1)
        ELSE <<m, e>>
        ) : m \in {m0}, e \in {e0}} : TRUE

\* The Decimal of value sign * m * 10^e, for an exact m of any length.
Canon(neg0, m0, e0) ==
    CHOOSE result \in {(
        LET z == StripZeros(m, e)
        IN  Dec(IF neg THEN -z[1] ELSE z[1], z[2])
        ) : neg \in {neg0}, m \in {m0}, e \in {e0}} : TRUE

\* Context rounding of the magnitude m * 10^e (plus something smaller than
\* one unit of m when sticky) to DecimalPrec digits, ROUND_HALF_EVEN.
RECURSIVE RoundMag(_, _, _)
RoundMag(m0, e0, sticky0) ==
    CHOOSE result \in {(
        IF m < Pow10(DecimalPrec) THEN <<m, e>>
        ELSE IF m >= Pow10(DecimalPrec + 1)
             THEN RoundMag(m \div 10, e + 1, sticky \/ (m % 10 # 0))
        ELSE LET d == m % 10
                 q == m \div 10
                 up == d > 5 \/ (d = 5 /\ (sticky \/ q % 2 = 1))
             IN  <<IF up THEN q + 1 ELSE q, e + 1>>
        ) : m \in {m0}, e \in {e0}, sticky \in {sticky0}} : TRUE

Rounded(neg0, m0, e0, sticky0) ==
    CHOOSE result \in {(
        LET r == RoundMag(m, e, sticky)
        IN  Canon(neg, r[1], r[2])
        ) : neg \in {neg0}, m \in {m0}, e \in {e0}, sticky \in {sticky0}} : TRUE

\* Both coefficients at the smaller exponent.
Aligned(a0, b0) ==
    CHOOSE result \in {(
        LET e == Min(a.e, b.e)
        IN  <<a.c * Pow10(a.e - e), b.c * Pow10(b.e - e), e>>
        ) : a \in {a0}, b \in {b0}} : TRUE

DecAdd(a0, b0) ==
    CHOOSE result \in {(
        LET t == Aligned(a, b)
            s == t[1] + t[2]
        IN  Rounded(s < 0, Abs(s), t[3], FALSE)
        ) : a \in {a0}, b \in {b0}} : TRUE

DecSub(a0, b0) ==
    CHOOSE result \in {(
        LET t == Aligned(a, b)
            s == t[1] - t[2]
        IN  Rounded(s < 0, Abs(s), t[3], FALSE)
        ) : a \in {a0}, b \in {b0}} : TRUE

DecMul(a0, b0) ==
    CHOOSE result \in {(
        LET p == a.c * b.c
        IN  Rounded(p < 0, Abs(p), a.e + b.e, FALSE)
        ) : a \in {a0}, b \in {b0}} : TRUE

\* Long division: quotient digits are produced until the quotient has
\* DecimalPrec + 1 of them or the remainder is zero.
RECURSIVE DivDigits(_, _, _, _)
DivDigits(q0, r0, d0, e0) ==
    CHOOSE result \in {(
        IF r = 0 \/ q >= Pow10(DecimalPrec) THEN <<q, r, e>>
        ELSE DivDigits(q * 10 + (r * 10) \div d, (r * 10) % d, d, e - 1)
        ) : q \in {q0}, r \in {r0}, d \in {d0}, e \in {e0}} : TRUE

\* a / b for b # 0 (the code divides only behind a test of the divisor).
DecDiv(a0, b0) ==
    CHOOSE result \in {(
        LET n == Abs(a.c)
            d == Abs(b.c)
            t == DivDigits(n \div d, n % d, d, a.e - b.e)
        IN  Rounded((a.c < 0) # (b.c < 0), t[1], t[3], t[2] # 0)
        ) : a \in {a0}, b \in {b0}} : TRUE

DecLT(a0, b0) ==
    CHOOSE result \in {(
        LET t == Aligned(a, b) IN t[1] < t[2]
        ) : a \in {a0}, b \in {b0}} : TRUE

DecLE(a0, b0) ==
    CHOOSE result \in {(
        LET t == Aligned(a, b) IN t[1] <= t[2]
        ) : a \in {a0}, b \in {b0}} : TRUE

DecZero == Dec(0, 0)

\* Decimal.to_integral_value(rounding=ROUND_DOWN): truncation toward zero.
DecTrunc(a0) ==
    CHOOSE result \in {(
        IF a.e >= 0 THEN a
        ELSE IF -a.e > DecimalPrec THEN DecZero
        ELSE Canon(a.c < 0, Abs(a.c) \div Pow10(-a.e), 0)
        ) : a \in {a0}} : TRUE

(***************************************************************************)
(* Strings and _to_decimal_maybe.                                          *)
(***************************************************************************)
Digits == {"0", "1", "2", "3", "4", "5", "6", "7", "8", "9"}

DigitVal(ch) ==
    CASE ch = "0" -> 0 [] ch = "1" -> 1 [] ch = "2" -> 2 [] ch = "3" -> 3
      [] ch = "4" -> 4 [] ch = "5" -> 5 [] ch = "6" -> 6 [] ch = "7" -> 7
      [] ch = "8" -> 8 [] ch = "9" -> 9

\* Number of digits of s starting at position i.
RECURSIVE DigitRun(_, _)
DigitRun(s0, i0) ==
    CHOOSE result \in {(
        IF i <= Len(s) /\ s[i] \in Digits THEN 1 + DigitRun(s, i + 1) ELSE 0
        ) : s \in {s0}, i \in {i0}} : TRUE

\* Length of the match of -?\d+(?:\.\d+)? starting at position i, 0 if none.
MatchAt(s0, i0) ==
    CHOOSE result \in {(
        LET sg == IF i <= Len(s) /\ s[i] = "-" THEN 1 ELSE 0
            n1 == DigitRun(s, i + sg)
            j  == i + sg + n1
            n2 == IF j <= Len(s) /\ s[j] = "." THEN DigitRun(s, j + 1) ELSE 0
        IN  IF n1 = 0 THEN 0
            ELSE sg + n1 + (IF n2 > 0 THEN 1 + n2 ELSE 0)
        ) : s \in {s0}, i \in {i0}} : TRUE

\* re.search: the leftmost position with a match, 0 if there is none.
RECURSIVE SearchFrom(_, _)
SearchFrom(s0, i0) ==
    CHOOSE result \in {(
        IF i > Len(s) THEN 0
        ELSE IF MatchAt(s, i) > 0 THEN i
        ELSE SearchFrom(s, i + 1)
        ) : s \in {s0}, i \in {i0}} : TRUE

\* str.strip() for blanks.
RECURSIVE StripWs(_)
StripWs(s0) ==
    CHOOSE result \in {(
        IF s = <<>> THEN s
        ELSE IF Head(s) = " " THEN StripWs(Tail(s))
        ELSE IF s[Len(s)] = " " THEN StripWs(SubSeq(s, 1, Len(s) - 1))
        ELSE s
        ) : s \in {s0}} : TRUE

\* Value of the digit string s[i..j] read as a natural number.
RECURSIVE NatOf(_, _, _)
NatOf(s0, i0, j0) ==
    CHOOSE result \in {(
        IF j < i THEN 0 ELSE NatOf(s, i, j - 1) * 10 + DigitVal(s[j])
        ) : s \in {s0}, i \in {i0}, j \in {j0}} : TRUE

\* Decimal(s) for s matching -?\d+(\.\d+)? : exact, no context rounding.
DecimalOfNumeral(s0) ==
    CHOOSE result \in {(
        LET sg == IF s[1] = "-" THEN 1 ELSE 0
            n1 == DigitRun(s, 1 + sg)
            n2 == IF n1 + sg < Len(s) THEN Len(s) - (n1 + sg + 1) ELSE 0
            ip == NatOf(s, 1 + sg, sg + n1)
            fp == NatOf(s, sg + n1 + 2, Len(s))
        IN  Canon(sg = 1, ip * Pow10(n2) + fp, -n2)
        ) : s \in {s0}} : TRUE

_to_decimal_maybe(v0) ==
    CHOOSE result \in {(
        IF v.kind # "str" THEN NoneV
        ELSE LET s == StripWs(v.s)
             IN  IF s = <<>> THEN NoneV
                 ELSE IF MatchAt(s, 1) = Len(s) THEN DecimalOfNumeral(s)
                 ELSE LET i == SearchFrom(s, 1)
                      IN  IF i = 0 THEN NoneV
                          ELSE DecimalOfNumeral(SubSeq(s, i, i + MatchAt(s, i) - 1))
        ) : v \in {v0}} : TRUE

(***************************************************************************)
(* The threshold: TARGET_PROFIT_PCT = float(os.getenv(..., "0.10")).       *)
(* A float in (0, 1) is the sequence of its binary digits after the point, *)
(* 53 significant ones, the decimal literal rounded to nearest, ties to    *)
(* even, as float() does.                                                  *)
(***************************************************************************)
FloatMantissaBits == 53

\* acc followed by the first n binary digits of r/d (0 <= r < d), and the
\* remainder left.
RECURSIVE BinDigits(_, _, _, _)
BinDigits(r, d, n, acc) ==
    IF n = 0 THEN <<acc, r>>
    ELSE IF 2 * r >= d THEN BinDigits(2 * r - d, d, n - 1, Append(acc, 1))
    ELSE BinDigits(2 * r, d, n - 1, Append(acc, 0))

\* Zero binary digits of r/d (0 < r < d) before its first one.
RECURSIVE LeadingZeros(_, _)
LeadingZeros(r, d) == IF 2 * r >= d THEN 0 ELSE 1 + LeadingZeros(2 * r, d)

\* bits + one unit in the last place.
RECURSIVE BitsSucc(_)
BitsSucc(bits) ==
    IF bits = <<>> THEN <<>>
    ELSE LET n == Len(bits)
         IN  IF bits[n] = 0 THEN [bits EXCEPT ![n] = 1]
             ELSE BitsSucc(SubSeq(bits, 1, n - 1)) \o <<0>>

\* float("num/den") for 0 < num < den.
FloatOf(num, den) ==
    LET n  == LeadingZeros(num, den) + FloatMantissaBits
        t  == BinDigits(num, den, n, <<>>)
        r  == t[2]
        up == 2 * r > den \/ (2 * r = den /\ t[1][n] = 1)
    IN  IF up THEN BitsSucc(t[1]) ELSE t[1]

\* The default of line 50, the literal "0.10".
TARGET_PROFIT_PCT == FloatOf(1, 10)

\* Whether r/d >= 0.bits, digit by digit (0 <= r < d).
RECURSIVE FracGEBits(_, _, _, _)
FracGEBits(r, d, bits, i) ==
    IF i > Len(bits) THEN TRUE
    ELSE LET b == IF 2 * r >= d THEN 1 ELSE 0
         IN  IF b # bits[i] THEN b > bits[i]
             ELSE FracGEBits((2 * r) % d, d, bits, i + 1)

\* Decimal >= float, which Python decides exactly on the two values.
DecGEFloat(g0, f0) ==
    CHOOSE result \in {(
        IF g.c <= 0 THEN FALSE
        ELSE IF g.e >= 0 THEN TRUE
        ELSE IF g.c >= Pow10(-g.e) THEN TRUE
        ELSE FracGEBits(g.c, Pow10(-g.e), f, 1)
        ) : g \in {g0}, f \in {f0}} : TRUE

(***************************************************************************)
(* Fills, their sort key, and the stable sort of fetch_all_fills.          *)
(***************************************************************************)
\* ord() of the characters that occur in the timestamps.
Ord(ch) ==
    CASE ch = "-" -> 45 [] ch = "." -> 46 [] ch = ":" -> 58
      [] ch = "T" -> 84 [] ch = "Z" -> 90
      [] OTHER -> 48 + DigitVal(ch)

\* a < b for Python strings: lexicographic by code point.
RECURSIVE StrLT(_, _)
StrLT(a0, b0) ==
    CHOOSE result \in {(
        IF b = <<>> THEN FALSE
        ELSE IF a = <<>> THEN TRUE
        ELSE IF Head(a) # Head(b) THEN Ord(Head(a)) < Ord(Head(b))
        ELSE StrLT(Tail(a), Tail(b))
        ) : a \in {a0}, b \in {b0}} : TRUE

\* str(trade_time or created_at or time or ""): the records of the model
\* carry trade_time only.
_fill_time_key(f) == IF f.trade_time.kind = "str" THEN f.trade_time.s ELSE <<>>

\* x put into the sorted list s behind every element whose key is <= its own.
RECURSIVE InsertByKey(_, _)
InsertByKey(s0, x0) ==
    CHOOSE result \in {(
        IF s = <<>> THEN <<x>>
        ELSE IF StrLT(_fill_time_key(x), _fill_time_key(Head(s))) THEN <<x>> \o s
        ELSE <<Head(s)>> \o InsertByKey(Tail(s), x)
        ) : s \in {s0}, x \in {x0}} : TRUE

\* list.sort(key=_fill_time_key): stable, ascending.
RECURSIVE SortFills(_)
SortFills(s0) ==
    CHOOSE result \in {(
        IF s = <<>> THEN <<>>
        ELSE InsertByKey(SortFills(SubSeq(s, 1, Len(s) - 1)), s[Len(s)])
        ) : s \in {s0}} : TRUE

(***************************************************************************)
(* The moving-average fold of compute_avg_cost_for_balance.                *)
(***************************************************************************)
\* str(...).upper() on the side strings of the model.
Upper(s) ==
    CASE s = "buy" -> "BUY" [] s = "sell" -> "SELL" [] OTHER -> s

\* The running state before the first record (lines 221-224).
FoldInit ==
    [units |-> DecZero, cost |-> DecZero, last_buy_price |-> NoneV, consumed |-> 0]

\* A record the loop skips with `continue` (lines 228-231).
Discarded(f0) ==
    CHOOSE result \in {(
        LET qty   == _to_decimal_maybe(f.size)
            price == _to_decimal_maybe(f.price)
        IN  qty = NoneV \/ price = NoneV \/ qty.c <= 0 \/ price.c <= 0
        ) : f \in {f0}} : TRUE

\* FoldStepOn adding the price of a BUY to the cost, whatever its quantity.
FoldStepOnUnitCost(st0, f0) ==
    CHOOSE result \in {(
        LET side  == Upper(f.side)
            qty   == _to_decimal_maybe(f.size)
            price == _to_decimal_maybe(f.price)
        IN  IF Discarded(f) THEN st
            ELSE IF side = "BUY" THEN
                [units |-> DecAdd(st.units, qty),
                 cost |-> DecAdd(st.cost, price),
                 last_buy_price |-> price,
                 consumed |-> st.consumed + 1]
            ELSE IF side = "SELL" /\ st.units.c > 0 THEN
                LET a       == DecDiv(st.cost, st.units)
                    consume == IF DecLE(qty, st.units) THEN qty ELSE st.units
                IN  [units |-> DecSub(st.units, consume),
                     cost |-> DecSub(st.cost, DecMul(a, consume)),
                     last_buy_price |-> st.last_buy_price,
                     consumed |-> st.consumed + 1]
            ELSE [st EXCEPT !.consumed = st.consumed + 1]
        ) : st \in {st0}, f \in {f0}} : TRUE

\* FoldStepOn counting every record, the ones passed over too.
FoldStepOnCountingAll(st0, f0) ==
    CHOOSE result \in {(
        LET side  == Upper(f.side)
            qty   == _to_decimal_maybe(f.size)
            price == _to_decimal_maybe(f.price)
        IN  IF Discarded(f) THEN [st EXCEPT !.consumed = st.consumed + 1]
            ELSE IF side = "BUY" THEN
                [units |-> DecAdd(st.units, qty),
                 cost |-> DecAdd(st.cost, DecMul(qty, price)),
                 last_buy_price |-> price,
                 consumed |-> st.consumed + 1]
            ELSE IF side = "SELL" /\ st.units.c > 0 THEN
                LET a       == DecDiv(st.cost, st.units)
                    consume == IF DecLE(qty, st.units) THEN qty ELSE st.units
                IN  [units |-> DecSub(st.units, consume),
                     cost |-> DecSub(st.cost, DecMul(a, consume)),
                     last_buy_price |-> st.last_buy_price,
                     consumed |-> st.consumed + 1]
            ELSE [st EXCEPT !.consumed = st.consumed + 1]
        ) : st \in {st0}, f \in {f0}} : TRUE

\* One iteration of the loop over fills (lines 226-244).
FoldStepOn(st0, f0) ==
    CHOOSE result \in {(
        LET side  == Upper(f.side)
            qty   == _to_decimal_maybe(f.size)
            price == _to_decimal_maybe(f.price)
        IN  IF Discarded(f) THEN st
            ELSE IF side = "BUY" THEN
                [units |-> DecAdd(st.units, qty),
                 cost |-> DecAdd(st.cost, DecMul(qty, price)),
                 last_buy_price |-> price,
                 consumed |-> st.consumed + 1]
            ELSE IF side = "SELL" /\ st.units.c > 0 THEN
                LET a       == DecDiv(st.cost, st.units)
                    consume == IF DecLE(qty, st.units) THEN qty ELSE st.units
                IN  [units |-> DecSub(st.units, consume),
                     cost |-> DecSub(st.cost, DecMul(a, consume)),
                     last_buy_price |-> st.last_buy_price,
                     consumed |-> st.consumed + 1]
            ELSE [st EXCEPT !.consumed = st.consumed + 1]
        ) : st \in {st0}, f \in {f0}} : TRUE

\* FoldAvg without the test of units: with nothing held the quotient is
\* taken all the same and a number (0 here) is returned for it.
FoldAvgUnguarded(st) ==
    IF st.units.c > 0 THEN DecDiv(st.cost, st.units) ELSE DecZero

\* FoldAvg returning the running cost undivided.
FoldAvgUndivided(st) == IF st.units.c > 0 THEN st.cost ELSE NoneV

\* The returned avg_cost (lines 246-249).
FoldAvg(st0) ==
    CHOOSE result \in {(
        IF st.units.c > 0 THEN DecDiv(st.cost, st.units) ELSE NoneV
        ) : st \in {st0}} : TRUE

(***************************************************************************)
(* What the brokerage can answer.  Raise is a request that fails.          *)
(***************************************************************************)
Raise == [kind |-> "raise"]

Ok(v) == [kind |-> "ok", v |-> v]

\* Python truthiness of None / str.
Truthy(v) == v.kind = "str" /\ v.s # <<>>

PF1 == Str(<<"p", "1">>)

PF2 == Str(<<"p", "2">>)

\* What ensure_portfolio_uuid can return.
Scopes == {NoneV, PF1}

QUOTE_CURRENCY == "USD"

BalanceDict(s) == [kind |-> "dict", value |-> Str(s)]

Account(ccy, b, p) == [currency |-> ccy, available_balance |-> b, portfolio_uuid |-> p]

\* Entries of the accounts endpoint: two held assets, the quote currency,
\* a second BTC account of another portfolio, an unreadable balance and a
\* missing one.
A_BTC == Account("BTC", BalanceDict(<<"2", ".", "5">>), PF1)

A_ETH == Account("eth", BalanceDict(<<"1", ".", "9", "9", "9">>), NoneV)

A_USD == Account("USD", BalanceDict(<<"5", "0">>), PF1)

A_BTC_PF2 == Account("BTC", BalanceDict(<<"1">>), PF2)

A_BTC_bad == Account("BTC", BalanceDict(<<"n", "/", "a">>), NoneV)

A_ETH_none == Account("ETH", NoneV, PF1)

RECURSIVE SeqsUpTo(_, _)
SeqsUpTo(S, n) ==
    IF n = 0 THEN {<<>>}
    ELSE LET shorter == SeqsUpTo(S, n - 1)
         IN  shorter \cup {Append(s, x) : s \in shorter, x \in S}

\* The listings the accounts endpoint answers with.
Listings ==
    { <<>>,
      <<A_USD, A_BTC>>,
      <<A_BTC, A_ETH>>,
      <<A_BTC_PF2, A_BTC>>,
      <<A_BTC_bad, A_ETH>>,
      <<A_ETH_none>> }

ListResponses == {Raise} \cup {Ok(l) : l \in Listings}

ProductResponses(sym) ==
    { Raise,
      Ok([base_increment |-> Str(<<"1">>), base_currency_id |-> sym]),
      Ok([base_increment |-> Str(<<"0", ".", "0", "1">>), base_currency_id |-> sym]) }

Fill(side, sz, price, tt) == [side |-> side, size |-> sz, price |-> price, trade_time |-> tt]

\* Timestamps are RFC 3339 strings; the model writes their seconds field
\* and what follows it, the part before being the same in all of them.
TS_01     == Str(<<"0", "1", "Z">>)

TS_01_5   == Str(<<"0", "1", ".", "5", "Z">>)

TS_02     == Str(<<"0", "2", "Z">>)

S_1   == Str(<<"1">>)

S_2   == Str(<<"2">>)

S_7   == Str(<<"7">>)

S_100 == Str(<<"1", "0", "0">>)

S_150 == Str(<<"1", "5", "0">>)

S_200 == Str(<<"2", "0", "0">>)

S_0   == Str(<<"0">>)

S_bad == Str(<<"n", "/", "a">>)

S_neg == Str(<<"-", "1">>)

\* Pages of the fills endpoint seen by the scan loop.
ScanPages ==
    { Ok([fills |-> f, cursor |-> c]) :
        f \in { <<>>,
                <<Fill("BUY", S_1, S_100, TS_01)>>,
                <<Fill("SELL", S_1, S_150, TS_02)>> },
        c \in {NoneV, Str(<<"c">>)} }

\* Pages of the fills endpoint in SpecFetch: three executions of the same
\* second and the next, in any order and split.
LedgerFills ==
    { Fill("BUY", S_1, S_100, TS_01),
      Fill("BUY", S_1, S_200, TS_01_5),
      Fill("SELL", S_1, S_150, TS_02) }

LedgerPages ==
    { Ok([fills |-> f, cursor |-> c]) :
        f \in SeqsUpTo(LedgerFills, 2), c \in {NoneV, Str(<<"c">>)} }

\* Pages of the fills endpoint in SpecRecon: a purchase, a sale of it half
\* a second later and a second purchase, in any order and split.
ReconFills ==
    { Fill("BUY", S_1, S_100, TS_01),
      Fill("SELL", S_1, S_150, TS_01_5),
      Fill("BUY", S_1, S_200, TS_02) }

ReconPages ==
    { Ok([fills |-> f, cursor |-> c]) :
        f \in SeqsUpTo(ReconFills, 2), c \in {NoneV, Str(<<"c">>)} }

\* Histories given to the fold in SpecRange: purchases at two prices and
\* sales of less and of more than is held, in every interleaving.
RangeFills ==
    { Fill("BUY", S_1, S_100, TS_01),
      Fill("BUY", S_2, S_200, TS_01),
      Fill("SELL", S_1, S_150, TS_01),
      Fill("sell", S_7, S_150, TS_01) }

\* Histories given to the fold in SpecFold (all of one timestamp, so that
\* every order of them is a sorted list).
FoldFills ==
    { Fill("BUY", S_1, S_100, TS_01),
      Fill("BUY", S_1, S_200, TS_01),
      Fill("BUY", S_2, S_200, TS_01),
      Fill("SELL", S_1, S_150, TS_01),
      Fill("sell", S_7, S_150, TS_01),
      Fill("SELL", S_bad, S_150, TS_01),
      Fill("buy", S_1, S_0, TS_01),
      Fill("BUY", S_1, NoneV, TS_01),
      Fill("SELL", S_neg, S_150, TS_01) }

TickerResponses ==
    { Raise,
      Ok([price |-> Str(<<"1", "0", "9", ".", "9", "9">>), bid |-> NoneV, ask |-> NoneV]),
      Ok([price |-> Str(<<"1", "1", "0", ".", "0", "0">>), bid |-> NoneV, ask |-> NoneV]),
      Ok([price |-> Str(<<"1", "1", "1">>), bid |-> NoneV, ask |-> NoneV]),
      Ok([price |-> S_0, bid |-> NoneV, ask |-> NoneV]),
      Ok([price |-> NoneV, bid |-> Str(<<"1", "1", "0">>), ask |-> Str(<<"1", "1", "2">>)]),
      Ok([price |-> NoneV, bid |-> NoneV, ask |-> NoneV]) }

BookResponses ==
    { Raise,
      Ok([bid |-> Str(<<"1", "1", "0">>), ask |-> Str(<<"1", "1", "2">>)]),
      Ok([bid |-> NoneV, ask |-> Str(<<"1", "1", "2">>)]) }

TradesResponses ==
    { Raise,
      Ok([price |-> Str(<<"1", "1", "1">>)]),
      Ok([price |-> NoneV]) }

\* uuid.uuid4().hex
UUIDs == {"u1", "u2"}

(***************************************************************************)
(* Pure helpers of scan_once.                                              *)
(***************************************************************************)
\* str.upper() on the currency codes of the model.
CcyUpper(s) ==
    CASE s = "btc" -> "BTC" [] s = "eth" -> "ETH" [] s = "usd" -> "USD" [] OTHER -> s

normalize_account(a) ==
    [currency |-> CcyUpper(a.currency),
     available_balance |-> a.available_balance,
     portfolio_uuid |-> a.portfolio_uuid]

\* Lines 259-266: whether the scoped request is made and its answer is
\* the result of list_accounts.
ScopedAnswers(portfolio_uuid, scoped) ==
    Truthy(portfolio_uuid) /\ scoped.kind = "ok" /\ scoped.v # <<>>

\* Lines 267-273: the result of the unscoped request, [] when it fails.
UnscopedListing(unscoped) == IF unscoped.kind = "ok" THEN unscoped.v ELSE <<>>

\* Every listing list_accounts can return (lines 254-273): the scoped
\* answer when a scope is set and the answer is not empty, else the
\* unscoped one, else [].
ListedAccounts(portfolio_uuid) ==
    {s.v : s \in {r \in ListResponses : ScopedAnswers(portfolio_uuid, r)}}
        \cup {UnscopedListing(u) : u \in ListResponses}

\* OutOfScope passing every entry, whatever its portfolio.
OutOfScopeUnfiltered(portfolio_uuid, a) == FALSE

\* The filter of lines 327 and 384.
OutOfScope(portfolio_uuid, a) ==
    /\ Truthy(portfolio_uuid)
    /\ Truthy(a.portfolio_uuid)
    /\ a.portfolio_uuid # portfolio_uuid

\* Decimal(str(v)): the value, or Raise when the constructor rejects the
\* text (str(None) is "None").
DecimalOfStr(v0) ==
    CHOOSE result \in {(
        IF v.kind # "str" THEN Raise
        ELSE LET s == StripWs(v.s)
             IN  IF s # <<>> /\ MatchAt(s, 1) = Len(s) THEN DecimalOfNumeral(s)
                 ELSE Raise
        ) : v \in {v0}} : TRUE

\* Lines 338-341 and 388-391: NoneV when the field is None.
ParseBalance(bal_val0) ==
    CHOOSE result \in {(
        IF bal_val.kind = "dict" THEN DecimalOfStr(bal_val.value)
        ELSE IF bal_val.kind # "none" THEN DecimalOfStr(bal_val)
        ELSE NoneV
        ) : bal_val \in {bal_val0}} : TRUE

\* Lines 323-348: an entry the loop passes over without a request (out of
\* scope, the quote currency, no readable balance, or balance <= 0).
Skipped(portfolio_uuid0, a0) ==
    CHOOSE result \in {(
        LET n == normalize_account(a)
            b == ParseBalance(n.available_balance)
        IN  \/ OutOfScope(portfolio_uuid, n)
            \/ n.currency = QUOTE_CURRENCY
            \/ b.kind # "dec"
            \/ b.c <= 0
        ) : portfolio_uuid \in {portfolio_uuid0}, a \in {a0}} : TRUE

\* Lines 179-186.
get_product_meta(p) ==
    [base_inc |-> DecimalOfStr(p.base_increment), base_ccy |-> p.base_currency_id]

\* round_to_inc returning the value as it is, for every increment.
round_to_inc_unrounded(value, inc) == value

\* Lines 100-103.
round_to_inc(value0, inc0) ==
    CHOOSE result \in {(
        IF inc = NoneV \/ inc.c <= 0 THEN value
        ELSE DecMul(DecTrunc(DecDiv(value, inc)), inc)
        ) : value \in {value0}, inc \in {inc0}} : TRUE

\* Lines 381-392: the balance of the first in-scope entry of the base
\* currency in the fresh listing, 0 when there is none, Raise when its
\* text is rejected.
RECURSIVE FreshBaseBalance(_, _, _, _)
FreshBaseBalance(portfolio_uuid0, listing0, base_ccy0, i0) ==
    CHOOSE result \in {(
        IF i > Len(listing) THEN DecZero
        ELSE LET acc == normalize_account(listing[i])
             IN  IF OutOfScope(portfolio_uuid, acc) \/ acc.currency # base_ccy
                 THEN FreshBaseBalance(portfolio_uuid, listing, base_ccy, i + 1)
                 ELSE IF acc.available_balance.kind = "none" THEN DecZero
                 ELSE ParseBalance(acc.available_balance)
        ) : portfolio_uuid \in {portfolio_uuid0}, listing \in {listing0}, base_ccy \in {base_ccy0}, i \in {i0}} : TRUE

\* Lines 372 and 401.
Gain(p0, a0) ==
    CHOOSE result \in {(
        DecDiv(DecSub(p, a), a)
        ) : p \in {p0}, a \in {a0}} : TRUE

\* MeetsTarget comparing the quote with the cost basis alone.
MeetsTargetAboveCost(p, a) == DecLE(a, p)

\* Lines 374, 377 and 402: gain >= TARGET_PROFIT_PCT.
MeetsTarget(p0, a0) ==
    CHOOSE result \in {(
        DecGEFloat(Gain(p, a), TARGET_PROFIT_PCT)
        ) : p \in {p0}, a \in {a0}} : TRUE

\* Lines 134-145: what the ticker source yields, NoneV to go on.
TickerPrice(res0) ==
    CHOOSE result \in {(
        IF res.kind = "raise" THEN NoneV
        ELSE IF _to_decimal_maybe(res.v.price) # NoneV THEN _to_decimal_maybe(res.v.price)
        ELSE IF _to_decimal_maybe(res.v.bid) # NoneV /\ _to_decimal_maybe(res.v.ask) # NoneV
             THEN DecDiv(DecAdd(_to_decimal_maybe(res.v.bid), _to_decimal_maybe(res.v.ask)), Dec(2, 0))
        ELSE NoneV
        ) : res \in {res0}} : TRUE

\* Lines 148-163.
BookPrice(res0) ==
    CHOOSE result \in {(
        IF res.kind = "raise" THEN NoneV
        ELSE IF _to_decimal_maybe(res.v.bid) # NoneV /\ _to_decimal_maybe(res.v.ask) # NoneV
             THEN DecDiv(DecAdd(_to_decimal_maybe(res.v.bid), _to_decimal_maybe(res.v.ask)), Dec(2, 0))
        ELSE NoneV
        ) : res \in {res0}} : TRUE

\* Lines 166-175.
TradesPrice(res0) ==
    CHOOSE result \in {(
        IF res.kind = "raise" THEN NoneV ELSE _to_decimal_maybe(res.v.price)
        ) : res \in {res0}} : TRUE

Chr(d) ==
    CASE d = 0 -> "0" [] d = 1 -> "1" [] d = 2 -> "2" [] d = 3 -> "3" [] d = 4 -> "4"
      [] d = 5 -> "5" [] d = 6 -> "6" [] d = 7 -> "7" [] d = 8 -> "8" [] d = 9 -> "9"

RECURSIVE DigitsOf(_)
DigitsOf(n0) ==
    CHOOSE result \in {(
        IF n < 10 THEN <<Chr(n)>> ELSE Append(DigitsOf(n \div 10), Chr(n % 10))
        ) : n \in {n0}} : TRUE

Zeros(n) == [i \in 1..n |-> "0"]

\* f"{size.normalize():f}" for size > 0 (line 304).
FormatF(d0) ==
    CHOOSE result \in {(
        LET ds == DigitsOf(d.c)
            n  == Len(ds)
        IN  IF d.e >= 0 THEN ds \o Zeros(d.e)
            ELSE IF n > -d.e THEN SubSeq(ds, 1, n + d.e) \o <<".">> \o SubSeq(ds, n + d.e + 1, n)
            ELSE <<"0", ".">> \o Zeros(-d.e - n) \o ds
        ) : d \in {d0}} : TRUE

Log(m) == [msg |-> m]

\* main without the try of lines 424-427: the exception ends the process.
AfterScanRaisesExits == "exit"

\* Where main goes when scan_once raises: the except clause of lines
\* 426-427 logs, then line 428 sleeps.
AfterScanRaises == "sleep"

\* Line 330 for the entry under evaluation.
CurSym == normalize_account(accounts[idx]).currency

FoldState ==
    [units |-> units, cost |-> cost, last_buy_price |-> last_buy_price,
     consumed |-> consumed]

(***************************************************************************)
(* The state machine.  One action per request to the brokerage (with the   *)
(* local code that handles its answer), plus the local steps of the loops. *)
(* Locals that the code reassigns before it reads them again are cleared   *)
(* when an evaluation ends.                                                *)
(***************************************************************************)
\* ResetLocals with the running state of the fold kept in the process
\* (units, cost, last_buy_price and consumed outliving the call).
ResetLocalsKeepingFold ==
    /\ bal' = NoneV /\ meta' = NoneV
    /\ out' = <<>> /\ cursor' = NoneV /\ npages' = 0
    /\ fills' = <<>> /\ fi' = 1
    /\ UNCHANGED <<units, cost, last_buy_price, consumed>>
    /\ avg' = NoneV /\ last_buy' = NoneV /\ px' = NoneV
    /\ recheck' = FALSE /\ base_bal' = NoneV /\ accounts_now' = <<>> /\ size' = NoneV /\ px2' = NoneV

ResetLocals ==
    /\ bal' = NoneV /\ meta' = NoneV
    /\ out' = <<>> /\ cursor' = NoneV /\ npages' = 0
    /\ fills' = <<>> /\ fi' = 1 /\ units' = DecZero /\ cost' = DecZero
    /\ last_buy_price' = NoneV /\ consumed' = 0
    /\ avg' = NoneV /\ last_buy' = NoneV /\ px' = NoneV
    /\ recheck' = FALSE /\ base_bal' = NoneV /\ accounts_now' = <<>> /\ size' = NoneV /\ px2' = NoneV

LocalsUnset ==
    /\ bal = NoneV /\ meta = NoneV
    /\ out = <<>> /\ cursor = NoneV /\ npages = 0
    /\ fills = <<>> /\ fi = 1 /\ units = DecZero /\ cost = DecZero
    /\ last_buy_price = NoneV /\ consumed = 0
    /\ avg = NoneV /\ last_buy = NoneV /\ px = NoneV
    /\ recheck = FALSE /\ base_bal = NoneV /\ accounts_now = <<>> /\ size = NoneV /\ px2 = NoneV

\* Finish leaving scan_once: the end of an evaluation ends the cycle.
FinishEndingScan(l) ==
    /\ lastlog' = l
    /\ idx' = idx + 1
    /\ pc' = "sleep"
    /\ ResetLocals
    /\ UNCHANGED <<pf, fallback, accounts, toperr>>

\* Finish with the cost basis kept in the process after the evaluation
\* (avg and last_buy outliving it, as a cache would).
FinishKeepingBasis(l) ==
    /\ lastlog' = l
    /\ idx' = idx + 1
    /\ pc' = "loop"
    /\ bal' = NoneV /\ meta' = NoneV
    /\ out' = <<>> /\ cursor' = NoneV /\ npages' = 0
    /\ fills' = <<>> /\ fi' = 1 /\ units' = DecZero /\ cost' = DecZero
    /\ last_buy_price' = NoneV /\ consumed' = 0
    /\ px' = NoneV
    /\ recheck' = FALSE /\ base_bal' = NoneV /\ accounts_now' = <<>> /\ size' = NoneV /\ px2' = NoneV
    /\ UNCHANGED <<pf, fallback, accounts, toperr, avg, last_buy>>

\* The evaluation of the current entry ends with log line l (a `continue`,
\* or the end of the loop body).
Finish(l) ==
    /\ lastlog' = l
    /\ idx' = idx + 1
    /\ pc' = "loop"
    /\ ResetLocals
    /\ UNCHANGED <<pf, fallback, accounts, toperr>>

\* main, line 417 and the configuration read at import.
Init ==
    /\ pf \in Scopes
    /\ fallback \in BOOLEAN
    /\ pc = "scan"
    /\ accounts = <<>>
    /\ idx = 1
    /\ LocalsUnset
    /\ reqs = <<>>
    /\ answers = <<>>
    /\ orders = <<>>
    /\ lastlog = Log("started")
    /\ toperr = FALSE

\* ListAccounts started by a timer: a scan begins whatever the process is
\* doing.
ListAccountsOnTimer ==
    /\ accounts' \in ListedAccounts(pf)
    /\ idx' = 1
    /\ pc' = "loop"
    /\ reqs' = <<>>
    /\ answers' = <<>>
    /\ orders' = <<>>
    /\ lastlog' = Log("scan")
    /\ toperr' = FALSE
    /\ ResetLocals
    /\ UNCHANGED <<pf, fallback>>

\* main line 425 calls scan_once, whose first statement lists the accounts.
ListAccounts ==
    /\ pc = "scan"
    /\ accounts' \in ListedAccounts(pf)
    /\ idx' = 1
    /\ pc' = "loop"
    /\ reqs' = <<>>
    /\ answers' = <<>>
    /\ orders' = <<>>
    /\ lastlog' = Log("scan")
    /\ toperr' = FALSE
    /\ ResetLocals
    /\ UNCHANGED <<pf, fallback>>

\* Lines 323-348: the head of the loop over accounts.
NextAccount ==
    /\ pc = "loop"
    /\ IF idx > Len(accounts)
       THEN /\ pc' = "sleep"
            /\ UNCHANGED <<pf, fallback, accounts, idx, bal, meta, out, cursor,
                           npages, fills, fi, units, cost, last_buy_price,
                           consumed, avg, last_buy, px, recheck, base_bal, accounts_now, size,
                           px2, reqs, answers, orders, lastlog, toperr>>
       ELSE LET a == normalize_account(accounts[idx])
                b == ParseBalance(a.available_balance)
                skip == Skipped(pf, accounts[idx])
            IN  /\ idx' = IF skip THEN idx + 1 ELSE idx
                /\ pc' = IF skip THEN "loop" ELSE "meta"
                /\ bal' = IF skip THEN NoneV ELSE b
                /\ reqs' = <<>>
                /\ answers' = <<>>
                /\ lastlog' = Log("none")
                /\ UNCHANGED <<pf, fallback, accounts, meta, out, cursor, npages,
                               fills, fi, units, cost, last_buy_price, consumed,
                               avg, last_buy, px, recheck, base_bal, accounts_now, size, px2,
                               orders, toperr>>

\* Lines 350-355.
GetProductMeta ==
    /\ pc = "meta"
    /\ reqs' = Append(reqs, "product")
    /\ UNCHANGED answers
    /\ UNCHANGED orders
    /\ \E res \in ProductResponses(CurSym) :
           IF res.kind = "raise" \/ get_product_meta(res.v).base_inc.kind = "raise"
           THEN Finish(Log("skip_no_product"))
           ELSE /\ meta' = get_product_meta(res.v)
                /\ pc' = "fills"
                /\ UNCHANGED <<pf, fallback, accounts, idx, bal, out, cursor, npages,
                               fills, fi, units, cost, last_buy_price, consumed,
                               avg, last_buy, px, recheck, base_bal, accounts_now, size, px2,
                               lastlog, toperr>>

\* FetchPageFrom without the cap: pages are requested for as long as they
\* have records and a cursor.
FetchPageFromUncapped(S) ==
    /\ pc = "fills"
    /\ reqs' = Append(reqs, "fills")
    /\ UNCHANGED answers
    /\ \E res \in S \cup {Raise} :
           IF res.kind = "raise"
           THEN /\ toperr' = TRUE
                /\ lastlog' = Log("top_error")
                /\ pc' = AfterScanRaises
                /\ ResetLocals
                /\ UNCHANGED <<pf, fallback, accounts, idx, orders>>
           ELSE LET got  == res.v.fills
                    more == /\ got # <<>>
                            /\ Truthy(res.v.cursor)
                IN  /\ out' = out \o got
                    /\ cursor' = IF got = <<>> THEN cursor ELSE res.v.cursor
                    /\ npages' = npages + 1
                    /\ pc' = IF more THEN "fills" ELSE "fold"
                    /\ fills' = IF more THEN fills ELSE SortFills(out \o got)
                    /\ UNCHANGED <<pf, fallback, accounts, idx, bal, meta, fi,
                                   units, cost, last_buy_price, consumed, avg,
                                   last_buy, px, recheck, base_bal, accounts_now, size, px2,
                                   orders, lastlog, toperr>>

\* FetchPageFrom handing over no records when the loop ends at the cap
\* with a cursor in the last response (an incomplete history treated as
\* no history).
FetchPageFromDroppingIncomplete(S) ==
    /\ pc = "fills"
    /\ npages < MAX_FILL_PAGES
    /\ reqs' = Append(reqs, "fills")
    /\ UNCHANGED answers
    /\ \E res \in S \cup {Raise} :
           IF res.kind = "raise"
           THEN /\ toperr' = TRUE
                /\ lastlog' = Log("top_error")
                /\ pc' = AfterScanRaises
                /\ ResetLocals
                /\ UNCHANGED <<pf, fallback, accounts, idx, orders>>
           ELSE LET got  == res.v.fills
                    more == /\ got # <<>>
                            /\ Truthy(res.v.cursor)
                            /\ npages + 1 < MAX_FILL_PAGES
                    cut  == /\ got # <<>>
                            /\ Truthy(res.v.cursor)
                            /\ npages + 1 = MAX_FILL_PAGES
                IN  /\ out' = out \o got
                    /\ cursor' = IF got = <<>> THEN cursor ELSE res.v.cursor
                    /\ npages' = npages + 1
                    /\ pc' = IF more THEN "fills" ELSE "fold"
                    /\ fills' = IF more THEN fills
                                ELSE IF cut THEN <<>> ELSE SortFills(out \o got)
                    /\ UNCHANGED <<pf, fallback, accounts, idx, bal, meta, fi,
                                   units, cost, last_buy_price, consumed, avg,
                                   last_buy, px, recheck, base_bal, accounts_now, size, px2,
                                   orders, lastlog, toperr>>

\* One iteration of the loop of fetch_all_fills (lines 197-210) and, when
\* the loop ends, the sort and the return (211-212) and lines 221-224.  A
\* failed request propagates through compute_avg_cost_for_balance and
\* scan_once (line 358 is outside any try) to main.
FetchPageFrom(S) ==
    /\ pc = "fills"
    /\ npages < MAX_FILL_PAGES
    /\ reqs' = Append(reqs, "fills")
    /\ UNCHANGED answers
    /\ \E res \in S \cup {Raise} :
           IF res.kind = "raise"
           THEN /\ toperr' = TRUE
                /\ lastlog' = Log("top_error")
                /\ pc' = AfterScanRaises
                /\ ResetLocals
                /\ UNCHANGED <<pf, fallback, accounts, idx, orders>>
           ELSE LET got  == res.v.fills
                    more == /\ got # <<>>
                            /\ Truthy(res.v.cursor)
                            /\ npages + 1 < MAX_FILL_PAGES
                IN  /\ out' = out \o got
                    /\ cursor' = IF got = <<>> THEN cursor ELSE res.v.cursor
                    /\ npages' = npages + 1
                    /\ pc' = IF more THEN "fills" ELSE "fold"
                    /\ fills' = IF more THEN fills ELSE SortFills(out \o got)
                    /\ UNCHANGED <<pf, fallback, accounts, idx, bal, meta, fi,
                                   units, cost, last_buy_price, consumed, avg,
                                   last_buy, px, recheck, base_bal, accounts_now, size, px2,
                                   orders, lastlog, toperr>>

FetchPage == FetchPageFrom(ScanPages)

FetchLedgerPage == FetchPageFrom(LedgerPages)

\* One iteration of the loop over fills (lines 226-244).
FoldStep ==
    /\ pc = "fold"
    /\ fi <= Len(fills)
    /\ LET st == FoldStepOn(FoldState, fills[fi])
       IN  /\ units' = st.units
           /\ cost' = st.cost
           /\ last_buy_price' = st.last_buy_price
           /\ consumed' = st.consumed
    /\ fi' = fi + 1
    /\ UNCHANGED <<pf, fallback, pc, accounts, idx, bal, meta, out, cursor, npages,
                   fills, avg, last_buy, px, recheck, base_bal, accounts_now, size, px2, reqs,
                   answers,
                   orders, lastlog, toperr>>

\* Lines 246-249, received by line 358.
FoldReturn ==
    /\ pc = "fold"
    /\ fi > Len(fills)
    /\ avg' = FoldAvg(FoldState)
    /\ last_buy' = last_buy_price
    /\ pc' = "have_avg"
    /\ UNCHANGED <<pf, fallback, accounts, idx, bal, meta, out, cursor, npages,
                   fills, fi, units, cost, last_buy_price, consumed, px, recheck,
                   base_bal, accounts_now, size, px2, reqs, answers, orders, lastlog,
                   toperr>>

\* CheckAvg passing the entry over whenever the reconstruction returned no
\* average, the fallback flag not consulted.
CheckAvgNoFallback ==
    /\ pc = "have_avg"
    /\ UNCHANGED <<reqs, orders, answers>>
    /\ IF avg = NoneV
       THEN Finish(Log("skip_unknown"))
       ELSE /\ pc' = "ticker"
            /\ recheck' = FALSE
            /\ out' = <<>> /\ cursor' = NoneV /\ npages' = 0
            /\ fills' = <<>> /\ fi' = 1 /\ cost' = DecZero
            /\ last_buy_price' = NoneV /\ consumed' = 0
            /\ UNCHANGED <<pf, fallback, accounts, idx, bal, meta, units, avg,
                           last_buy, px, base_bal, accounts_now, size, px2, lastlog, toperr>>

\* Lines 359-364.
CheckAvg ==
    /\ pc = "have_avg"
    /\ UNCHANGED <<reqs, orders, answers>>
    /\ IF avg = NoneV /\ ~(fallback /\ last_buy # NoneV)
       THEN Finish(Log("skip_unknown"))
       ELSE /\ avg' = IF avg = NoneV THEN last_buy ELSE avg
            /\ pc' = "ticker"
            /\ recheck' = FALSE
            /\ out' = <<>> /\ cursor' = NoneV /\ npages' = 0
            /\ fills' = <<>> /\ fi' = 1 /\ cost' = DecZero
            /\ last_buy_price' = NoneV /\ consumed' = 0
            /\ UNCHANGED <<pf, fallback, accounts, idx, bal, meta, units,
                           last_buy, px, base_bal, accounts_now, size, px2, lastlog, toperr>>

\* AfterQuote without the test of line 402: the second quote is fetched
\* but the gain is not recomputed with it.
AfterQuoteNoRecheck(p) ==
    IF ~recheck
    THEN IF p = NoneV \/ avg.c <= 0 THEN Finish(Log("skip_no_price"))
         ELSE IF MeetsTarget(p, avg)
              THEN /\ lastlog' = [msg |-> "eval", bal |-> bal, avg |-> avg,
                                  px |-> p, action |-> "SELL"]
                   /\ px' = p
                   /\ pc' = "relist"
                   /\ UNCHANGED <<pf, fallback, accounts, idx, bal, meta, out,
                                  cursor, npages, fills, fi, units, cost,
                                  last_buy_price, consumed, avg, last_buy,
                                  recheck, base_bal, accounts_now, size, px2, toperr>>
              ELSE Finish([msg |-> "eval", bal |-> bal, avg |-> avg, px |-> p,
                           action |-> "skip"])
    ELSE IF p = NoneV THEN Finish(Log("aborted_no_price"))
         ELSE IF size.c > 0
              THEN /\ px2' = p
                   /\ pc' = "order"
                   /\ UNCHANGED <<pf, fallback, accounts, idx, bal, meta, out,
                                  cursor, npages, fills, fi, units, cost,
                                  last_buy_price, consumed, avg, last_buy, px,
                                  recheck, base_bal, accounts_now, size, lastlog, toperr>>
              ELSE Finish(Log("size0"))

\* price_for_product has returned p (NoneV: no source had a price).  The
\* first call continues at lines 368-377, the second at lines 398-409.
AfterQuote(p) ==
    IF ~recheck
    THEN IF p = NoneV \/ avg.c <= 0 THEN Finish(Log("skip_no_price"))
         ELSE IF MeetsTarget(p, avg)
              THEN /\ lastlog' = [msg |-> "eval", bal |-> bal, avg |-> avg,
                                  px |-> p, action |-> "SELL"]
                   /\ px' = p
                   /\ pc' = "relist"
                   /\ UNCHANGED <<pf, fallback, accounts, idx, bal, meta, out,
                                  cursor, npages, fills, fi, units, cost,
                                  last_buy_price, consumed, avg, last_buy,
                                  recheck, base_bal, accounts_now, size, px2, toperr>>
              ELSE Finish([msg |-> "eval", bal |-> bal, avg |-> avg, px |-> p,
                           action |-> "skip"])
    ELSE IF p = NoneV THEN Finish(Log("aborted_no_price"))
         ELSE IF ~MeetsTarget(p, avg) THEN Finish(Log("aborted_gain"))
         ELSE IF size.c > 0
              THEN /\ px2' = p
                   /\ pc' = "order"
                   /\ UNCHANGED <<pf, fallback, accounts, idx, bal, meta, out,
                                  cursor, npages, fills, fi, units, cost,
                                  last_buy_price, consumed, avg, last_buy, px,
                                  recheck, base_bal, accounts_now, size, lastlog, toperr>>
              ELSE Finish(Log("size0"))

\* pc moves to the next source; nothing else changes.
NextSource(s) ==
    /\ pc' = s
    /\ UNCHANGED <<pf, fallback, accounts, idx, bal, meta, out, cursor, npages,
                   fills, fi, units, cost, last_buy_price, consumed, avg, last_buy,
                   px, recheck, base_bal, accounts_now, size, px2, lastlog, toperr>>

\* Ticker going on to the order book whatever the ticker answered.
TickerThenBook ==
    /\ pc = "ticker"
    /\ reqs' = Append(reqs, "ticker")
    /\ UNCHANGED orders
    /\ \E res \in TickerResponses :
           /\ answers' = Append(answers, res)
           /\ NextSource("book")

\* price_for_product, source 1 (lines 134-145).
Ticker ==
    /\ pc = "ticker"
    /\ reqs' = Append(reqs, "ticker")
    /\ UNCHANGED orders
    /\ \E res \in TickerResponses :
           /\ answers' = Append(answers, res)
           /\ IF TickerPrice(res) # NoneV THEN AfterQuote(TickerPrice(res))
              ELSE NextSource("book")

\* price_for_product, source 2 (lines 148-163).
Book ==
    /\ pc = "book"
    /\ reqs' = Append(reqs, "book")
    /\ UNCHANGED orders
    /\ \E res \in BookResponses :
           /\ answers' = Append(answers, res)
           /\ IF BookPrice(res) # NoneV THEN AfterQuote(BookPrice(res))
              ELSE NextSource("trades")

\* price_for_product, source 3 (lines 166-177).
Trades ==
    /\ pc = "trades"
    /\ reqs' = Append(reqs, "trades")
    /\ UNCHANGED orders
    /\ \E res \in TradesResponses :
           /\ answers' = Append(answers, res)
           /\ AfterQuote(TradesPrice(res))

\* Relist computing the size from the balance read when the scan listed
\* the accounts.
RelistSizingStaleBalance ==
    /\ pc = "relist"
    /\ reqs' = Append(reqs, "accounts")
    /\ answers' = <<>>
    /\ UNCHANGED orders
    /\ \E listing \in ListedAccounts(pf) :
           LET b == FreshBaseBalance(pf, listing, meta.base_ccy, 1)
           IN  IF b.kind = "raise" THEN Finish(Log("sell_error"))
               ELSE /\ base_bal' = b
                    /\ accounts_now' = listing
                    /\ size' = round_to_inc(bal, meta.base_inc)
                    /\ recheck' = TRUE
                    /\ pc' = "ticker"
                    /\ UNCHANGED <<pf, fallback, accounts, idx, bal, meta, out,
                                   cursor, npages, fills, fi, units, cost,
                                   last_buy_price, consumed, avg, last_buy, px,
                                   px2, lastlog, toperr>>

\* Lines 378-394: the fresh listing and the size.  An exception of the
\* Decimal constructor is caught at line 410.
Relist ==
    /\ pc = "relist"
    /\ reqs' = Append(reqs, "accounts")
    /\ answers' = <<>>
    /\ UNCHANGED orders
    /\ \E listing \in ListedAccounts(pf) :
           LET b == FreshBaseBalance(pf, listing, meta.base_ccy, 1)
           IN  IF b.kind = "raise" THEN Finish(Log("sell_error"))
               ELSE /\ base_bal' = b
                    /\ accounts_now' = listing
                    /\ size' = round_to_inc(b, meta.base_inc)
                    /\ recheck' = TRUE
                    /\ pc' = "ticker"
                    /\ UNCHANGED <<pf, fallback, accounts, idx, bal, meta, out,
                                   cursor, npages, fills, fi, units, cost,
                                   last_buy_price, consumed, avg, last_buy, px,
                                   px2, lastlog, toperr>>

\* The request of place_sell_order (lines 298-310).  entry is not sent: it
\* records which iteration of the loop over accounts posted it.
OrderRequest(coid) ==
    [client_order_id |-> coid,
     product_id |-> <<CurSym, QUOTE_CURRENCY>>,
     side |-> "SELL",
     base_size |-> FormatF(size),
     retail_portfolio_id |-> IF Truthy(pf) THEN pf ELSE NoneV,
     entry |-> idx]

\* PlaceSellOrder posting once more when the POST fails.
PlaceSellOrderRetrying ==
    /\ pc = "order"
    /\ reqs' = Append(reqs, "order")
    /\ UNCHANGED answers
    /\ \E coid \in UUIDs, accepted \in BOOLEAN :
           /\ orders' = Append(orders, OrderRequest(coid))
           /\ IF accepted \/ \E i \in 1..Len(orders) : orders[i].entry = idx
              THEN Finish(Log(IF accepted THEN "sold" ELSE "sell_error"))
              ELSE /\ lastlog' = Log("sell_error")
                   /\ UNCHANGED <<pf, fallback, pc, accounts, idx, bal, meta, out,
                                  cursor, npages, fills, fi, units, cost,
                                  last_buy_price, consumed, avg, last_buy, px,
                                  recheck, base_bal, accounts_now, size, px2, toperr>>

\* Line 407: place_sell_order; a failure of the POST is caught at line 410.
PlaceSellOrder ==
    /\ pc = "order"
    /\ reqs' = Append(reqs, "order")
    /\ UNCHANGED answers
    /\ \E coid \in UUIDs, accepted \in BOOLEAN :
           /\ orders' = Append(orders, OrderRequest(coid))
           /\ Finish(Log(IF accepted THEN "sold" ELSE "sell_error"))

\* Line 428.
Sleep ==
    /\ pc = "sleep"
    /\ pc' = "scan"
    /\ UNCHANGED <<pf, fallback, accounts, idx, bal, meta, out, cursor, npages,
                   fills, fi, units, cost, last_buy_price, consumed, avg, last_buy,
                   px, recheck, base_bal, accounts_now, size, px2, reqs, answers, orders,
                   lastlog, toperr>>

Next ==
    \/ ListAccounts
    \/ NextAccount
    \/ GetProductMeta
    \/ FetchPage
    \/ FoldStep
    \/ FoldReturn
    \/ CheckAvg
    \/ Ticker
    \/ Book
    \/ Trades
    \/ Relist
    \/ PlaceSellOrder
    \/ Sleep

Spec == Init /\ [][Next]_vars

\* The process is one thread that always runs its next statement, and
\* every request returns or raises.
FairSpec == Spec /\ WF_vars(Next)

(***************************************************************************)
(* fetch_all_fills alone, on richer pages.                                 *)
(***************************************************************************)
InitFetch ==
    /\ pf \in Scopes
    /\ fallback = FALSE
    /\ pc = "fills"
    /\ accounts = <<Account("BTC", BalanceDict(<<"1">>), NoneV)>>
    /\ idx = 1
    /\ LocalsUnset
    /\ reqs = <<>>
    /\ answers = <<>>
    /\ orders = <<>>
    /\ lastlog = Log("scan")
    /\ toperr = FALSE

NextFetch == FetchLedgerPage

SpecFetch == InitFetch /\ [][NextFetch]_vars

(***************************************************************************)
(* compute_avg_cost_for_balance whole: the pages, the sort and the fold.   *)
(***************************************************************************)
FetchReconPage == FetchPageFrom(ReconPages)

NextRecon == FetchReconPage \/ FoldStep \/ FoldReturn

SpecRecon == InitFetch /\ [][NextRecon]_vars

(***************************************************************************)
(* The fold of compute_avg_cost_for_balance alone, on richer histories.    *)
(***************************************************************************)
InitFold ==
    /\ pf = NoneV
    /\ fallback = FALSE
    /\ pc = "fold"
    /\ accounts = <<Account("BTC", BalanceDict(<<"1">>), NoneV)>>
    /\ idx = 1
    /\ bal = NoneV /\ meta = NoneV
    /\ out = <<>> /\ cursor = NoneV /\ npages = 1
    /\ fills \in SeqsUpTo(FoldFills, MaxFills)
    /\ fi = 1 /\ units = DecZero /\ cost = DecZero
    /\ last_buy_price = NoneV /\ consumed = 0
    /\ avg = NoneV /\ last_buy = NoneV /\ px = NoneV
    /\ recheck = FALSE /\ base_bal = NoneV /\ accounts_now = <<>> /\ size = NoneV /\ px2 = NoneV
    /\ reqs = <<>>
    /\ answers = <<>>
    /\ orders = <<>>
    /\ lastlog = Log("scan")
    /\ toperr = FALSE

NextFold == FoldStep \/ FoldReturn

SpecFold == InitFold /\ [][NextFold]_vars

(***************************************************************************)
(* The same fold on longer histories of purchases and sales only.          *)
(***************************************************************************)
InitRange ==
    /\ pf = NoneV
    /\ fallback = FALSE
    /\ pc = "fold"
    /\ accounts = <<Account("BTC", BalanceDict(<<"1">>), NoneV)>>
    /\ idx = 1
    /\ bal = NoneV /\ meta = NoneV
    /\ out = <<>> /\ cursor = NoneV /\ npages = 1
    /\ fills \in SeqsUpTo(RangeFills, MaxHistory)
    /\ fi = 1 /\ units = DecZero /\ cost = DecZero
    /\ last_buy_price = NoneV /\ consumed = 0
    /\ avg = NoneV /\ last_buy = NoneV /\ px = NoneV
    /\ recheck = FALSE /\ base_bal = NoneV /\ accounts_now = <<>> /\ size = NoneV /\ px2 = NoneV
    /\ reqs = <<>>
    /\ answers = <<>>
    /\ orders = <<>>
    /\ lastlog = Log("scan")
    /\ toperr = FALSE

SpecRange == InitRange /\ [][NextFold]_vars

(***************************************************************************)
(* Properties.                                                             *)
(***************************************************************************)
\* (p - a) / a >= 1/10 in exact arithmetic, for a > 0: the documented
\* threshold 0.10 applied to the quote p and the cost basis a.
GainAtLeastTenth(p0, a0) ==
    CHOOSE result \in {(
        LET t == Aligned(p, a)
        IN  10 * (t[1] - t[2]) >= t[2]
        ) : p \in {p0}, a \in {a0}} : TRUE

\* This step posts an order.
Submits == Len(orders') > Len(orders)

\* The requests of the evaluation show a quote request after the fresh
\* listing of the accounts.
QuoteFollowsRelist ==
    \E i, j \in 1..Len(reqs) :
        /\ i < j
        /\ reqs[i] = "accounts"
        /\ reqs[j] = "ticker"

\* C1: an order is posted only after a quote fetched after the first
\* evaluation (after the fresh listing) was obtained and the gain recomputed
\* with it is at least the threshold; when the recomputed gain is below it,
\* or no fresh quote came, the evaluation ends without an order.
C1_RecheckGatesOrder ==
    [][Submits =>
          /\ recheck
          /\ QuoteFollowsRelist
          /\ px2 # NoneV
          /\ GainAtLeastTenth(px2, avg)]_vars

\* A re-check has found the gain below the threshold and the evaluation
\* ended with no order of this entry.
C1_Witness ==
    /\ lastlog.msg = "aborted_gain"
    /\ pc = "loop"
    /\ \A i \in 1..Len(orders) : orders[i].entry # idx - 1

\* C2: an evaluation decides SELL exactly when (quote - avg_cost)/avg_cost
\* is at least 0.10, the boundary included (avg_cost 100: 109.99 is SKIP,
\* 110.00 is SELL).
C2_InclusiveBoundary ==
    lastlog.msg = "eval" =>
        (lastlog.action = "SELL" <=> GainAtLeastTenth(lastlog.px, lastlog.avg))

\* C3: a cycle in which a page request of one asset's history failed still
\* evaluates the held assets listed after that asset: when the cycle ends,
\* every entry after the last one reached is one the loop passes over.
C3_RemainingAssetsEvaluated ==
    pc = "sleep" =>
        \A i \in (idx + 1)..Len(accounts) : Skipped(pf, accounts[i])

\* C4: whatever was raised while scanning, the process goes on: scan_once
\* is called again and again, for ever.
C4_NextScanAlwaysHappens == []<><<ListAccounts>>_vars

\* A failure raised by scan_once has been caught by main, which sleeps.
C4_Witness == toperr /\ pc = "sleep" /\ lastlog.msg = "top_error"

\* C5: from the point where the re-check has passed with a size > 0, the
\* next step posts exactly one order for the entry and, accepted or not,
\* logs the outcome and moves the loop to the next entry; an order is
\* posted from no other point, and never for an entry that has one.
C5_OneSubmissionPerEvaluation ==
    [][/\ pc = "order" =>
              /\ Len(orders') = Len(orders) + 1
              /\ orders'[Len(orders')].entry = idx
              /\ lastlog'.msg \in {"sold", "sell_error"}
              /\ pc' = "loop"
              /\ idx' = idx + 1
       /\ Submits =>
              /\ pc = "order"
              /\ size.c > 0
              /\ \A i \in 1..Len(orders) : orders[i].entry # idx]_vars

\* A submission has failed; the failure is logged and the loop is at the
\* next entry, with one order posted for the entry it left.
C5_Witness ==
    /\ lastlog.msg = "sell_error"
    /\ pc = "loop"
    /\ Len(orders) > 0
    /\ orders[Len(orders)].entry = idx - 1
    /\ idx <= Len(accounts)

\* C7: an order is posted only for an entry whose listed balance was > 0,
\* whose cost basis in use is known and > 0, for which the evaluation
\* obtained a quote, and whose gain at that quote was at least the
\* threshold.
C7_OrderOnlyWhenAllHold ==
    [][Submits =>
          /\ bal.kind = "dec" /\ bal.c > 0
          /\ avg.kind = "dec" /\ avg.c > 0
          /\ px.kind = "dec"
          /\ GainAtLeastTenth(px, avg)]_vars

\* An order has been accepted.
C7_Witness == lastlog.msg = "sold" /\ Len(orders) > 0

\* The instant of a fill, in tenths of a second, read from its timestamp.
Instant(f) ==
    LET s == f.trade_time.s
    IN  (DigitVal(s[1]) * 10 + DigitVal(s[2])) * 10
            + (IF s[3] = "." THEN DigitVal(s[4]) ELSE 0)

\* How many times x occurs in the sequence s.
Count(s, x) == Cardinality({i \in 1..Len(s) : s[i] = x})

\* C8: what fetch_all_fills returns holds every record of the pages it
\* retrieved as many times as the pages hold it, and is ordered oldest to
\* newest by execution time.
C8_AllRecordsOldestFirst ==
    pc = "fold" =>
        /\ Len(fills) = Len(out)
        /\ \A i \in 1..Len(out) : Count(fills, out[i]) = Count(out, out[i])
        /\ \A i, j \in 1..Len(fills) :
               i < j => Instant(fills[i]) <= Instant(fills[j])

\* C9: after every step of the fold, the running units and the running
\* cost are >= 0.
C9_FoldNeverNegative == units.c >= 0 /\ cost.c >= 0

\* The price of the last record of s[1..n] that is a BUY the fold keeps.
RECURSIVE LastValidBuyPrice(_, _)
LastValidBuyPrice(s, n) ==
    IF n = 0 THEN NoneV
    ELSE IF Upper(s[n].side) = "BUY" /\ ~Discarded(s[n])
         THEN _to_decimal_maybe(s[n].price)
    ELSE LastValidBuyPrice(s, n - 1)

\* C10: compute_avg_cost_for_balance returns cost/units when the final
\* units are > 0 and None exactly when they are 0, and in both cases the
\* price of the last valid BUY of the history (None if it has none).
C10_AvgAndLastBuy ==
    pc = "have_avg" =>
        /\ units.c > 0 => avg = DecDiv(cost, units)
        /\ avg = NoneV <=> units.c = 0
        /\ last_buy = LastValidBuyPrice(fills, Len(fills))

\* A history of full length has left units, at an average that is not the
\* last purchase price.
C10_Witness ==
    /\ pc = "have_avg"
    /\ Len(fills) = MaxFills
    /\ avg # NoneV
    /\ last_buy # NoneV
    /\ avg # last_buy

\* The running state after the first n records of s (lines 221-244).
RECURSIVE FoldOver(_, _)
FoldOver(s, n) ==
    IF n = 0 THEN FoldInit ELSE FoldStepOn(FoldOver(s, n - 1), s[n])

\* C11: a record that is not a BUY (a SELL, or a record the loop passes
\* over) and that leaves running units > 0 leaves the moving average
\* cost/units as it was before the record.
C11_SellKeepsAverage ==
    (pc = "fold" /\ fi > 1) =>
        LET before == FoldOver(fills, fi - 2)
            f      == fills[fi - 1]
        IN  (/\ Upper(f.side) # "BUY" \/ Discarded(f)
             /\ before.units.c > 0
             /\ units.c > 0)
            => FoldAvg(FoldState) = FoldAvg(before)

\* a + b and a * b without rounding, and equality of value.
ExactAdd(a, b) == LET t == Aligned(a, b) IN Dec(t[1] + t[2], t[3])

ExactMul(a, b) == Dec(a.c * b.c, a.e + b.e)

SameValue(a, b) ==
    /\ a # NoneV
    /\ b # NoneV
    /\ LET t == Aligned(a, b) IN t[1] = t[2]

\* Every record of s is a BUY with readable size and price > 0.
AllValidBuys(s) ==
    \A i \in 1..Len(s) : Upper(s[i].side) = "BUY" /\ ~Discarded(s[i])

\* The sum of the quantities, and of quantity * price, of s[1..n].
RECURSIVE TotalUnits(_, _)
TotalUnits(s, n) ==
    IF n = 0 THEN DecZero
    ELSE ExactAdd(TotalUnits(s, n - 1), _to_decimal_maybe(s[n].size))

RECURSIVE TotalCost(_, _)
TotalCost(s, n) ==
    IF n = 0 THEN DecZero
    ELSE ExactAdd(TotalCost(s, n - 1),
                  ExactMul(_to_decimal_maybe(s[n].size),
                           _to_decimal_maybe(s[n].price)))

\* C12: for a history made only of valid BUY records the returned
\* avg_cost is (sum of quantity * price) / (sum of quantity).
C12_AllBuysWeightedAverage ==
    (pc = "have_avg" /\ fills # <<>> /\ AllValidBuys(fills)) =>
        SameValue(avg, DecDiv(TotalCost(fills, Len(fills)),
                              TotalUnits(fills, Len(fills))))

\* Three purchases of unequal quantity at unequal prices: the average is
\* none of the prices paid, nor their plain mean.
C12_Witness ==
    /\ pc = "have_avg"
    /\ Len(fills) = MaxFills
    /\ AllValidBuys(fills)
    /\ \E i, j \in 1..Len(fills) :
           /\ fills[i].size # fills[j].size
           /\ fills[i].price # fills[j].price
    /\ \A i \in 1..Len(fills) : ~SameValue(avg, _to_decimal_maybe(fills[i].price))

\* The records of s[1..n] that the loop does not pass over, in order.
RECURSIVE Kept(_, _)
Kept(s, n) ==
    IF n = 0 THEN <<>>
    ELSE IF Discarded(s[n]) THEN Kept(s, n - 1)
    ELSE Append(Kept(s, n - 1), s[n])

\* C13: a record whose quantity or price is missing, unreadable or not
\* > 0 changes nothing: the running units, cost, last_buy_price and
\* fills_consumed, and the returned result, are those of the same history
\* with such records removed.
C13_DiscardedRecordsLeaveNoTrace ==
    pc \in {"fold", "have_avg"} =>
        LET kept == Kept(fills, fi - 1)
            st   == FoldOver(kept, Len(kept))
        IN  /\ FoldState = st
            /\ pc = "have_avg" =>
                   /\ avg = FoldAvg(st)
                   /\ last_buy = st.last_buy_price

\* A full history with a record passed over between records that count,
\* and units left at the end.
C13_Witness ==
    /\ pc = "have_avg"
    /\ Len(fills) = MaxFills
    /\ \E i \in 2..(Len(fills) - 1) :
           /\ Discarded(fills[i])
           /\ ~Discarded(fills[1])
           /\ ~Discarded(fills[Len(fills)])
    /\ consumed = MaxFills - 1
    /\ avg # NoneV

\* C14: the result of compute_avg_cost_for_balance is a function of the
\* ordered history alone - whatever the configuration, the entry of the
\* listing and the evaluations made before, the same history returns the
\* same (avg_cost, fills_consumed, last_buy_price) - and the computation
\* changes nothing but its own locals and its result.
C14_FoldIsAFunctionOfTheHistory ==
    [][pc = "fold" =>
          /\ UNCHANGED <<pf, fallback, accounts, idx, bal, meta, fills, px,
                         recheck, base_bal, accounts_now, size, px2, reqs, answers, orders,
                         lastlog,
                         toperr>>
          /\ pc' = "have_avg" =>
                 LET st == FoldOver(fills, Len(fills))
                 IN  /\ avg' = FoldAvg(st)
                     /\ consumed' = st.consumed
                     /\ last_buy' = st.last_buy_price]_vars

\* The computation has returned an average for the second entry of a
\* listing, after the evaluation of the first entry has posted an order.
C14_Witness ==
    /\ pc = "have_avg"
    /\ idx = 2
    /\ Len(orders) = 1
    /\ Len(fills) = 2
    /\ avg # NoneV

\* The sources of price_for_product in the order of the code, and what
\* source i makes of the answer res (NoneV: go on to the next source).
QuoteSources == <<"ticker", "book", "trades">>

IsQuoteRequest(r) == r \in {"ticker", "book", "trades"}

Yield(i, res) ==
    CASE i = 1 -> TickerPrice(res)
      [] i = 2 -> BookPrice(res)
      [] i = 3 -> TradesPrice(res)

\* The requests of the current call of price_for_product: the last
\* Len(answers) requests made to a price source.
CallRequests ==
    LET q == SelectSeq(reqs, IsQuoteRequest)
    IN  SubSeq(q, Len(q) - Len(answers) + 1, Len(q))

\* What the current call returned, once it has returned.
Returned == Yield(Len(answers), answers[Len(answers)])

\* C15: a call of price_for_product requests ticker, book, trades in that
\* order, each at most once, and a source only when every source before it
\* yielded nothing (a request that fails counts as nothing and is not
\* propagated); it returns what the first yielding source yielded, and
\* returns nothing only after all three yielded nothing.
C15_QuoteWaterfall ==
    /\ Len(answers) <= Len(SelectSeq(reqs, IsQuoteRequest))
    /\ Len(answers) <= 3
    /\ \A i \in 1..Len(answers) : CallRequests[i] = QuoteSources[i]
    /\ \A i \in 1..(Len(answers) - 1) : Yield(i, answers[i]) = NoneV
    /\ pc = "ticker" => answers = <<>>
    /\ pc = "book" => Len(answers) = 1 /\ Returned = NoneV
    /\ pc = "trades" => Len(answers) = 2 /\ Returned = NoneV
    /\ pc = "relist" => answers # <<>> /\ px = Returned /\ px # NoneV
    /\ pc = "order" => answers # <<>> /\ px2 = Returned /\ px2 # NoneV
    /\ (pc = "loop" /\ lastlog.msg = "eval") =>
           answers # <<>> /\ lastlog.px = Returned /\ Returned # NoneV
    /\ (pc = "loop" /\ lastlog.msg \in {"aborted_gain", "size0", "sold"}) =>
           answers # <<>> /\ Returned # NoneV
    /\ (pc = "loop" /\ lastlog.msg \in {"skip_no_price", "aborted_no_price"}) =>
           Len(answers) = 3 /\ Returned = NoneV
    /\ lastlog.msg \in {"top_error", "sell_error"} =>
           reqs # <<>> /\ ~IsQuoteRequest(reqs[Len(reqs)])

\* In the call made before the order the ticker and the order book both
\* failed and the last trade gave the price.
C15_Witness ==
    /\ pc = "order"
    /\ Len(answers) = 3
    /\ answers[1] = Raise
    /\ answers[2] = Raise
    /\ px2 = TradesPrice(answers[3])

\* floor(value / inc) * inc in integer arithmetic, for value >= 0, inc > 0.
FloorToInc(value, inc) ==
    LET t == Aligned(value, inc)
    IN  Dec((t[1] \div t[2]) * t[2], t[3])

\* value is a whole multiple of inc.
WholeMultiple(value, inc) ==
    LET t == Aligned(value, inc) IN t[1] % t[2] = 0

\* C16: a step that posts an order posts the size
\* floor(balance / increment) * increment of the re-fetched balance, which
\* is > 0, <= that balance and a whole multiple of the increment; no step
\* posts an order while the size is 0 (or less).
C16_SizeIsFlooredToIncrement ==
    [][/\ Submits =>
              /\ size.c > 0
              /\ SameValue(size, FloorToInc(base_bal, meta.base_inc))
              /\ DecLE(size, base_bal)
              /\ WholeMultiple(size, meta.base_inc)
              /\ SameValue(DecimalOfStr(Str(orders'[Len(orders')].base_size)),
                           size)
       /\ (size # NoneV /\ size.c <= 0) => ~Submits
       /\ (recheck' /\ ~recheck) =>
              SameValue(size', FloorToInc(base_bal', meta.base_inc))]_vars

\* Both of the documented roundings have been posted in one cycle: 1.999
\* at increment 1 as 1, and 2.5 at increment 0.01 as 2.5.
C16_Witness ==
    /\ Len(orders) = 2
    /\ orders[1].product_id[1] = "BTC"
    /\ orders[1].base_size = <<"2", ".", "5">>
    /\ orders[2].product_id[1] = "ETH"
    /\ orders[2].base_size = <<"1">>

\* The requests of the evaluation, in order: the ledger pages, then a quote
\* (the first evaluation), then one listing of the accounts, then a quote
\* again, and after the listing no request for the ledger, the product or
\* the accounts.
RefetchesPrecede(r) ==
    \E k \in 1..Len(r) :
        /\ r[k] = "accounts"
        /\ \E i, j \in 1..(k - 1) :
               /\ r[i] = "fills"
               /\ i < j
               /\ IsQuoteRequest(r[j])
        /\ \A i \in 1..(k - 1) : r[i] = "fills" => \E j \in (i + 1)..(k - 1) :
               IsQuoteRequest(r[j])
        /\ \E j \in (k + 1)..Len(r) : IsQuoteRequest(r[j])
        /\ \A j \in (k + 1)..Len(r) : IsQuoteRequest(r[j])

\* C17: a step that posts an order comes, in the same evaluation, after a
\* listing of the accounts and a quote request that both follow the ledger
\* requests and the first evaluation, with no ledger request after them;
\* the size posted is computed from the balance of that listing and the
\* gain tested is the one at that quote; base_bal and px2 get their values
\* only on the steps that make those requests.
C17_RefetchBeforeOrder ==
    [][/\ Submits =>
              /\ RefetchesPrecede(reqs)
              /\ lastlog.msg = "eval"
              /\ lastlog.action = "SELL"
              /\ size = round_to_inc(base_bal, meta.base_inc)
              /\ px2 = Returned
              /\ MeetsTarget(px2, avg)
       /\ (base_bal' # base_bal /\ base_bal' # NoneV) =>
              /\ reqs' = Append(reqs, "accounts")
              /\ lastlog.msg = "eval"
              /\ size' = round_to_inc(base_bal', meta.base_inc)
       /\ (px2' # px2 /\ px2' # NoneV) =>
              /\ IsQuoteRequest(reqs'[Len(reqs')])
              /\ \E k \in 1..Len(reqs) : reqs[k] = "accounts"
              /\ px2' = Yield(Len(answers'), answers'[Len(answers')])]_vars

\* An order is about to be posted for an entry whose balance was 2.5 in
\* the listing of the scan and is 1 in the fresh listing, the first quote
\* having come from the ticker and the fresh one from the last trade.
C17_Witness ==
    /\ pc = "order"
    /\ ~SameValue(bal, base_bal)
    /\ SameValue(size, base_bal)
    /\ reqs = <<"product", "fills", "ticker", "accounts", "ticker", "book", "trades">>

\* Between the reconstruction and the end of the evaluation: units = 0
\* tells that the reconstruction returned no average.
Evaluating == pc \in {"ticker", "book", "trades", "relist", "order"}

\* The cost basis in use is the last BUY price whenever the reconstruction
\* returned no average, and that only with the fallback flag set.
FallbackBasis ==
    Evaluating =>
        /\ avg # NoneV
        /\ units.c = 0 => (fallback /\ last_buy # NoneV /\ avg = last_buy)

\* C18: when the reconstruction returns no average cost, with the fallback
\* flag set and a last BUY price known the evaluation goes on with that
\* price as cost basis, in the first evaluation (the logged decision) and
\* in the re-check before the order; otherwise the entry is passed over
\* with its log line, without a quote request and without an order.
C18_FallbackToLastBuy ==
    [][/\ FallbackBasis
       /\ FallbackBasis'
       /\ (pc = "have_avg" /\ avg = NoneV /\ fallback /\ last_buy # NoneV) =>
              /\ pc' = "ticker"
              /\ avg' = last_buy
              /\ UNCHANGED <<reqs, orders, idx>>
       /\ (pc = "have_avg" /\ avg = NoneV /\ ~(fallback /\ last_buy # NoneV)) =>
              /\ lastlog' = Log("skip_unknown")
              /\ pc' = "loop"
              /\ idx' = idx + 1
              /\ UNCHANGED <<reqs, orders>>
              /\ \A i \in 1..Len(reqs) : ~IsQuoteRequest(reqs[i])
       /\ (Evaluating /\ units.c = 0 /\ ~recheck /\ lastlog'.msg = "eval") =>
              /\ lastlog'.avg = last_buy
              /\ lastlog'.action = "SELL" <=> MeetsTarget(lastlog'.px, last_buy)
       /\ (Submits /\ units.c = 0) => MeetsTarget(px2, last_buy)
       /\ (Evaluating /\ Evaluating') => avg' = avg]_vars

\* The reconstruction returned no average (everything bought was sold),
\* the last BUY price served as cost basis, and the re-check has passed:
\* an order is about to be posted.
C18_Witness ==
    /\ pc = "order"
    /\ units.c = 0
    /\ fallback
    /\ avg = last_buy
    /\ lastlog.msg = "eval"
    /\ lastlog.avg = last_buy

\* The cycle under way has completed (the loop has gone through the whole
\* listing) or failed (an exception reached main), and no evaluation is
\* under way.
CycleOver ==
    /\ toperr \/ idx > Len(accounts)
    /\ LocalsUnset

\* C19: scan_once is entered only when the cycle before has completed or
\* failed and the sleep of main has returned; and an order is posted by
\* one step only, which takes the process from the call of
\* place_sell_order to the head of the loop with exactly one more order
\* posted: nothing else runs while a POST is outstanding.
C19_CyclesDoNotOverlap ==
    [][/\ ListAccounts => (pc = "scan" /\ CycleOver)
       /\ pc \in {"sleep", "scan"} => CycleOver
       /\ Len(orders') <= Len(orders) + 1
       /\ Submits => (pc = "order" /\ pc' = "loop" /\ LocalsUnset')]_vars

\* A cycle that posted two orders has completed, and the next is about to
\* begin.
C19_Witness ==
    /\ pc = "scan"
    /\ Len(orders) = 2
    /\ idx > Len(accounts)
    /\ ~toperr

\* Nothing of an evaluation is held: between evaluations, between cycles,
\* and when a reconstruction starts.
NothingHeld ==
    /\ pc \in {"loop", "sleep", "scan"} => LocalsUnset
    /\ pc \in {"meta", "fills"} =>
           /\ fills = <<>> /\ fi = 1
           /\ FoldState = FoldInit
           /\ avg = NoneV /\ last_buy = NoneV
           /\ px = NoneV /\ px2 = NoneV /\ base_bal = NoneV /\ accounts_now = <<>> /\ size = NoneV
           /\ ~recheck

\* C20: no inventory state survives a cycle.  The configuration never
\* changes; whenever a cycle ends or is about to begin every local of the
\* evaluations has its initial value, so that the state a cycle starts in
\* is determined by the configuration and the listing it receives, whatever
\* happened in the cycles before; and every evaluation and every
\* reconstruction starts from that empty state.
C20_NothingSurvivesACycle ==
    [][/\ pf' = pf
       /\ fallback' = fallback
       /\ NothingHeld
       /\ NothingHeld'
       /\ ListAccounts =>
              /\ LocalsUnset'
              /\ idx' = 1
              /\ reqs' = <<>> /\ answers' = <<>> /\ orders' = <<>>
              /\ ~toperr'
              /\ lastlog' = Log("scan")]_vars

\* A cycle in which an order was posted for the first entry and the ledger
\* request of the second failed has ended; the next is about to begin.
C20_Witness ==
    /\ pc = "scan"
    /\ toperr
    /\ Len(orders) = 1
    /\ idx = 2
    /\ LocalsUnset

\* C21: every price that price_for_product returns (to the first
\* evaluation, which logs it, or to the re-check) is > 0.
C21_QuotesArePositive ==
    /\ (answers # <<>> /\ Returned # NoneV) => Returned.c > 0
    /\ lastlog.msg = "eval" => lastlog.px.c > 0
    /\ px # NoneV => px.c > 0
    /\ px2 # NoneV => px2.c > 0

\* C22: fetch_all_fills makes at most MAX_FILL_PAGES page requests, each
\* request being one more of them, and after a request it goes on to
\* another only if the page had records, the response carried a cursor
\* and the cap is not reached - so it has returned (or raised) after at
\* most MAX_FILL_PAGES requests, whatever the pages and cursors.
C22_FetchStopsWithinCap ==
    [][pc = "fills" =>
          /\ npages < MAX_FILL_PAGES
          /\ Len(reqs') = Len(reqs) + 1
          /\ reqs'[Len(reqs')] = "fills"
          /\ Len(reqs') <= MAX_FILL_PAGES
          /\ pc' # "sleep" =>
                 /\ npages' = npages + 1
                 /\ pc' = "fills" <=>
                        /\ out' # out
                        /\ Truthy(cursor')
                        /\ npages' < MAX_FILL_PAGES
                 /\ pc' # "fills" => pc' = "fold"]_vars

\* Every page had records and the same cursor, and the fetch has returned
\* after MAX_FILL_PAGES requests.
C22_Witness ==
    /\ pc = "fold"
    /\ npages = MAX_FILL_PAGES
    /\ Len(reqs) = MAX_FILL_PAGES
    /\ cursor = Str(<<"c">>)
    /\ Len(out) >= MAX_FILL_PAGES

\* x put into s, which is ordered by instant, behind every record that is
\* not later than x; and s ordered oldest to newest.
RECURSIVE InsertByInstant(_, _)
InsertByInstant(s, x) ==
    IF s = <<>> THEN <<x>>
    ELSE IF Instant(x) < Instant(Head(s)) THEN <<x>> \o s
    ELSE <<Head(s)>> \o InsertByInstant(Tail(s), x)

RECURSIVE Chronological(_)
Chronological(s) ==
    IF s = <<>> THEN <<>>
    ELSE InsertByInstant(Chronological(SubSeq(s, 1, Len(s) - 1)), s[Len(s)])

\* C23: the avg_cost returned for the records retrieved is the moving
\* average over all of them taken oldest to newest - hence the same
\* however the records were split into pages and in whatever order the
\* pages came.
C23_AverageOverWholeHistory ==
    pc = "have_avg" =>
        LET h == Chronological(out)
        IN  avg = FoldAvg(FoldOver(h, Len(h)))

\* Two pages were retrieved and units are left after the second: the
\* reconstruction went on past the first page.
C23_Witness ==
    /\ pc = "have_avg"
    /\ npages = 2
    /\ Len(out) >= 3
    /\ avg # NoneV
    /\ avg = FoldAvg(FoldOver(Chronological(out), Len(out)))
    /\ avg # FoldAvg(FoldOver(out, 1))

\* The log lines of an evaluation that ended on a failed fetch other than
\* the ledger: no product, no price at the evaluation, no fresh price, an
\* exception while the balance was read again, a size of 0 (which is what
\* a failed fresh listing gives: list_accounts returns [] and the balance
\* stays 0).
FetchFailureLogs ==
    {"skip_no_product", "skip_no_price", "aborted_no_price", "sell_error", "size0"}

\* The requests of the evaluation show no POST.
NoOrderRequested == \A i \in 1..Len(reqs') : reqs'[i] # "order"

\* C24: a failed product lookup, a quote that no source gives, or a failed
\* re-fetch of the balance ends the evaluation of that entry only: no
\* order is posted for it, the cycle goes on with the next entry of the
\* same listing, which is evaluated if it is one the loop evaluates, and a
\* cycle that ends without an exception has gone through the whole listing.
C24_FetchFailureSkipsOneAsset ==
    [][/\ (lastlog' # lastlog /\ lastlog'.msg \in FetchFailureLogs
                /\ NoOrderRequested) =>
              /\ pc' = "loop"
              /\ idx' = idx + 1
              /\ UNCHANGED <<accounts, orders, toperr>>
              /\ \A i \in 1..Len(orders) : orders[i].entry # idx
       /\ (Len(answers') = 3 /\ answers' # answers
                /\ \A i \in 1..3 : answers'[i] = Raise) =>
              /\ lastlog'.msg \in {"skip_no_price", "aborted_no_price"}
              /\ pc' = "loop"
              /\ idx' = idx + 1
              /\ UNCHANGED orders
       /\ (pc = "loop" /\ idx <= Len(accounts)
                /\ ~Skipped(pf, accounts[idx])) =>
              /\ pc' = "meta"
              /\ idx' = idx
       /\ (pc = "sleep" /\ ~toperr) => idx > Len(accounts)]_vars

\* All three price sources failed for the first entry; the loop is at the
\* second entry of the listing, one that it evaluates.
C24_Witness ==
    /\ pc = "loop"
    /\ idx = 2
    /\ lastlog.msg = "skip_no_price"
    /\ answers = <<Raise, Raise, Raise>>
    /\ orders = <<>>
    /\ Len(accounts) = 2
    /\ ~Skipped(pf, accounts[2])

\* C25: the orders posted in one cycle are for pairwise different asset
\* pairs.
C25_OneOrderPerPairPerCycle ==
    \A i, j \in 1..Len(orders) :
        orders[i].product_id = orders[j].product_id => i = j

\* C26: cost / units is evaluated only with units > 0 - a SELL record
\* changes the running state only then, and an average is returned only
\* then - and the gain (price - avg) / avg only with avg > 0: at the
\* step that logs the decision and at every step of the re-check that
\* passes or fails on the gain.
C26_NoDivisionByZero ==
    [][/\ (pc = "fold" /\ fi <= Len(fills) /\ Upper(fills[fi].side) = "SELL"
                /\ (units' # units \/ cost' # cost)) =>
              units.c > 0
       /\ (pc = "fold" /\ pc' = "have_avg" /\ avg' # NoneV) => units.c > 0
       /\ (pc = "fold" /\ pc' = "have_avg" /\ units.c <= 0) => avg' = NoneV
       /\ (lastlog' # lastlog /\ lastlog'.msg \in {"eval", "aborted_gain"}) =>
              (avg # NoneV /\ avg.c > 0)
       /\ pc' = "order" => (avg # NoneV /\ avg.c > 0)
       /\ Submits => (avg # NoneV /\ avg.c > 0)]_vars

\* A history in which a SELL came with nothing held has been folded to
\* the end with nothing held: no quotient was taken, no average returned.
C26_Witness ==
    /\ pc = "have_avg"
    /\ units.c = 0
    /\ avg = NoneV
    /\ fills # <<>>
    /\ Upper(fills[1].side) = "SELL"
    /\ consumed = Len(fills)

\* The lowest and the highest price among the BUY records of s[1..n] that
\* the fold keeps; NoneV when there is none.
RECURSIVE LowestBuyPrice(_, _)
LowestBuyPrice(s, n) ==
    IF n = 0 THEN NoneV
    ELSE LET r == LowestBuyPrice(s, n - 1)
             p == _to_decimal_maybe(s[n].price)
         IN  IF Upper(s[n].side) # "BUY" \/ Discarded(s[n]) THEN r
             ELSE IF r = NoneV THEN p
             ELSE IF DecLT(p, r) THEN p ELSE r

RECURSIVE HighestBuyPrice(_, _)
HighestBuyPrice(s, n) ==
    IF n = 0 THEN NoneV
    ELSE LET r == HighestBuyPrice(s, n - 1)
             p == _to_decimal_maybe(s[n].price)
         IN  IF Upper(s[n].side) # "BUY" \/ Discarded(s[n]) THEN r
             ELSE IF r = NoneV THEN p
             ELSE IF DecLT(r, p) THEN p ELSE r

\* C27: a returned average cost is not below the lowest and not above the
\* highest price of the valid BUY records of the history.
C27_AverageWithinBuyPrices ==
    (pc = "have_avg" /\ avg # NoneV) =>
        /\ LowestBuyPrice(fills, Len(fills)) # NoneV
        /\ DecLE(LowestBuyPrice(fills, Len(fills)), avg)
        /\ DecLE(avg, HighestBuyPrice(fills, Len(fills)))

\* This step receives a page with records and a cursor, and it is the
\* last request the page cap allows.
CapReachedWithCursor ==
    /\ pc = "fills"
    /\ pc' = "fold"
    /\ out' # out
    /\ Truthy(cursor')
    /\ npages' = MAX_FILL_PAGES

\* The fetch has ended at the cap with a cursor in hand.
Incomplete == npages = MAX_FILL_PAGES /\ Truthy(cursor)

\* C28: when the page cap is reached with a cursor in the last response,
\* fetch_all_fills returns every record retrieved so far, sorted, and
\* nothing is logged or raised; the average is then the fold of these
\* records, and an average that is not None is the basis the evaluation
\* goes on with (to the quote and the decision), as with a whole history.
C28_CapReachedIsSilent ==
    [][/\ CapReachedWithCursor =>
              /\ fills' = SortFills(out')
              /\ Len(fills') = Len(out')
              /\ lastlog' = lastlog
              /\ toperr' = toperr
              /\ orders' = orders
       /\ (pc = "fold" /\ pc' = "have_avg" /\ Incomplete) =>
              /\ fills = SortFills(out)
              /\ avg' = FoldAvg(FoldOver(fills, Len(fills)))
              /\ lastlog' = lastlog
       /\ (pc = "have_avg" /\ Incomplete /\ avg # NoneV) =>
              /\ pc' = "ticker"
              /\ avg' = avg
              /\ lastlog' = lastlog]_vars

\* Each of the MAX_FILL_PAGES pages had a record and a cursor, and the
\* average of the records retrieved is in hand.
C28_Witness ==
    /\ pc = "have_avg"
    /\ Incomplete
    /\ Len(reqs) >= MAX_FILL_PAGES
    /\ Len(fills) = MAX_FILL_PAGES
    /\ \A i \in 1..Len(fills) : Upper(fills[i].side) = "BUY"
    /\ avg # NoneV

\* The portfolio id of entry a is known and is not the configured scope.
Foreign(a) ==
    /\ pf # NoneV
    /\ pf.s # <<>>
    /\ a.portfolio_uuid # NoneV
    /\ a.portfolio_uuid.s # <<>>
    /\ a.portfolio_uuid # pf

\* Balance b was read from an entry of listing l that is of currency ccy
\* and not foreign, or it is 0 and l has no such entry.
ReadInScope(l, ccy, b) ==
    \/ \E i \in 1..Len(l) :
           /\ ~Foreign(l[i])
           /\ CcyUpper(l[i].currency) = ccy
           /\ b = IF l[i].available_balance = NoneV THEN DecZero
                  ELSE ParseBalance(l[i].available_balance)
    \/ /\ b = DecZero
       /\ \A i \in 1..Len(l) : Foreign(l[i]) \/ CcyUpper(l[i].currency) # ccy

\* C29: with a scope configured, the loop passes over a foreign entry
\* with no request and no order, so the entry under evaluation and the
\* entry of every order posted are not foreign; and the balance the
\* re-fetch reads, from which the size of the order is computed, is that
\* of an entry of the fresh listing that is not foreign - whichever
\* listing (scoped, or unscoped after the scoped one failed) was returned.
C29_ForeignEntriesAreIgnored ==
    [][/\ (pc = "loop" /\ idx <= Len(accounts) /\ Foreign(accounts[idx])) =>
              /\ pc' = "loop"
              /\ idx' = idx + 1
              /\ reqs' = <<>>
              /\ orders' = orders
       /\ (pc \notin {"scan", "loop", "sleep"}) => ~Foreign(accounts[idx])
       /\ (pc = "relist" /\ pc' # "loop") =>
              /\ reqs' = Append(reqs, "accounts")
              /\ ReadInScope(accounts_now', meta.base_ccy, base_bal')
       /\ Submits =>
              /\ ~Foreign(accounts[orders'[Len(orders')].entry])
              /\ ReadInScope(accounts_now, meta.base_ccy, base_bal)
              /\ size = round_to_inc(base_bal, meta.base_inc)]_vars

\* Scope p1; the listing of the scan and the fresh listing both begin
\* with the BTC entry of portfolio p2 (balance 1), and the order about to
\* be posted is for the second entry, sized from its balance 2.5.
C29_Witness ==
    /\ pc = "order"
    /\ pf = PF1
    /\ accounts = <<A_BTC_PF2, A_BTC>>
    /\ idx = 2
    /\ accounts_now = <<A_BTC_PF2, A_BTC>>
    /\ SameValue(base_bal, Dec(25, -1))
    /\ orders = <<>>

====
